---- MODULE Spec2Model ----
(***************************************************************************)
(* blobo: a fleet of blob-servers (storage nodes) fronted by an API-server *)
(* that walks libconfig.OrderedServers() for every upload and download.    *)
(*                                                                         *)
(* Five specifications share the variables:                                *)
(*   Spec           the API tier (cmd_api_server.go, first half) driving   *)
(*                  the blob-servers over a lossy network;                 *)
(*   NodeSpec       one client talking to a blob-server directly           *)
(*                  (cmd_api_server.go, second half, and storage-api.go);  *)
(*   ConcSpec       two stores running side by side on one blob-server;    *)
(*   TimeoutSpec    the API tier in front of blob-servers that stop        *)
(*                  answering;                                             *)
(*   RoundTripSpec  the API tier with a record of acknowledged uploads.    *)
(* Identifiers, file names and payloads are sequences of one-character     *)
(* strings, HTTP bodies are sequences of text fragments.                   *)
(***************************************************************************)
EXTENDS Integers, Sequences, FiniteSets, TLC

VARIABLES
    registry,   \* libconfig's server list: sequence of [Group, Location]
    net,        \* per blob-server: how a request to it fares (a NetModes
                \* value, or "hung": connection accepted, never an answer)
    files,      \* per blob-server: its data directory, file name -> bytes
    stored,     \* history: per blob-server, id -> last store that succeeded
    api,        \* the API-server request being answered, Idle between two
    nodeReq,    \* the last request a client sent to a blob-server directly
    writes,     \* number of uploads / stores issued so far (bounded)
    acked,      \* history: the uploads the API-server relayed an OK answer for
    conc        \* per UploadHandler goroutine of ConcSpec: where it stands

vars == <<registry, net, files, stored, api, nodeReq, writes, acked, conc>>

(***************************************************************************)
(* Bounds and universes                                                    *)
(***************************************************************************)
\* Uploads through the API-server in one behaviour of Spec.
MaxUploads == 1

\* Stores sent to the blob-server in one behaviour of NodeSpec.
MaxStores == 2

Nodes == {"n1", "n2", "n3"}

NetModes == {"up", "down", "lossy"}

Payloads == { <<"a">>, <<"a", "b">> }

JsonSuffix == <<".", "j", "s", "o", "n">>

MimeMeta == { <<"X-Mime-Type", "t">> }

\* Request headers a client may send along with POST /blob/{id}.
RequestMetas == { {}, MimeMeta }

Digits == {"0", "1", "2", "3", "4", "5", "6", "7", "8", "9"}

LowerLetters == {"a", "b", "c", "d", "e", "f", "g", "h", "i", "j", "k", "l", "m",
                 "n", "o", "p", "q", "r", "s", "t", "u", "v", "w", "x", "y", "z"}

(***************************************************************************)
(* Pure helpers                                                            *)
(***************************************************************************)
\* sha1.New / fmt.Sprintf("%x"): the hex digest, cut to its first three
\* digits (sha1("a") = 86f7e4..., sha1("ab") = da2361..., sha1("") = da39a3...).
Sha1Hex(buf) ==
    CASE buf = <<"a">>      -> <<"8", "6", "f">>
      [] buf = <<"a", "b">> -> <<"d", "a", "2">>
      [] OTHER              -> <<"d", "a", "3">>

\* regexp "^([a-z0-9]+)$"
ValidId(id) ==
    /\ Len(id) >= 1
    /\ \A i \in 1..Len(id) : id[i] \in LowerLetters \cup Digits

\* strings.HasSuffix
HasSuffix(name, suffix) ==
    /\ Len(name) >= Len(suffix)
    /\ SubSeq(name, Len(name) - Len(suffix) + 1, Len(name)) = suffix

\* filepath.Ext: the suffix beginning at the final dot, "" without a dot
\* (mux's {id} never holds a path separator).
Ext(id) ==
    LET dots == {i \in 1..Len(id) : id[i] = "."}
    IN  IF dots = {} THEN <<>>
        ELSE LET last == CHOOSE i \in dots : \A j \in dots : j <= i
             IN  SubSeq(id, last, Len(id))

\* Faulty variant of StripExt: the id is used as it came.
StripExt_Identity(id) == id

\* id[0 : len(id)-len(extension)]
StripExt(id) == SubSeq(id, 1, Len(id) - Len(Ext(id)))

RECURSIVE FprintfNoArgs(_)
\* fmt.Fprintf(res, format) without operands: text is copied, "%%" gives
\* "%", any other verb has no operand and prints as %!v(MISSING).
FprintfNoArgs(format) ==
    IF format = <<>> THEN <<>>
    ELSE IF Head(format) # "%" THEN <<Head(format)>> \o FprintfNoArgs(Tail(format))
    ELSE IF Len(format) = 1 THEN <<"%!(NOVERB)">>
    ELSE IF format[2] = "%" THEN <<"%">> \o FprintfNoArgs(Tail(Tail(format)))
    ELSE <<"%!", format[2], "(MISSING)">> \o FprintfNoArgs(Tail(Tail(format)))

\* http.Error: the message and a newline, with the given status.
HttpError(msg, status, fs, calls) ==
    [status |-> status, body |-> <<msg, "\n">>, hdr |-> {}, fs |-> fs,
     fsCalls |-> calls, ok |-> FALSE, meta |-> {}]

EmptyFs == [x \in {} |-> <<>>]

PutFile(fs, name, data) ==
    [x \in DOMAIN fs \cup {name} |-> IF x = name THEN data ELSE fs[x]]

RECURSIVE JsonUnmarshal(_)
\* json.Unmarshal into map[string]string: the sidecar's key/value pairs;
\* a malformed document leaves the map as it is.
JsonUnmarshal(bytes) ==
    IF Len(bytes) < 2 THEN {}
    ELSE {<<bytes[1], bytes[2]>>} \cup JsonUnmarshal(Tail(Tail(bytes)))

(***************************************************************************)
(* FilesystemStorage (storage-api.go)                                      *)
(***************************************************************************)
\* Faulty variant of WriteFile: a failing write removes the file.
WriteFile_RemovesOnError(fs, name, data) ==
    {[err |-> FALSE, fs |-> PutFile(fs, name, data)]}
    \cup {[err |-> TRUE, fs |-> [x \in DOMAIN fs \ {name} |-> fs[x]]]}

\* ioutil.WriteFile(target, data, 0644): every result the call can have.
\* The file is opened O_WRONLY|O_CREATE|O_TRUNC and then written: a failing
\* open leaves the directory as it was, a failing write leaves a proper
\* prefix of data in the already truncated file.
WriteFile(fs, name, data) ==
    {[err |-> FALSE, fs |-> PutFile(fs, name, data)]}
    \cup {[err |-> TRUE, fs |-> fs]}
    \cup {[err |-> TRUE, fs |-> PutFile(fs, name, SubSeq(data, 1, k))] :
             k \in 0..(Len(data) - 1)}

\* FilesystemStorage.Store
Store(fs, id, data) ==
    {[ok |-> ~w.err, fs |-> w.fs] : w \in WriteFile(fs, id, data)}

\* FilesystemStorage.Get
Get(fs, id) ==
    IF id \notin DOMAIN fs
    THEN [found |-> FALSE, data |-> <<>>, meta |-> {}]
    ELSE [found |-> TRUE, data |-> fs[id],
          meta |-> IF (id \o JsonSuffix) \in DOMAIN fs
                   THEN JsonUnmarshal(fs[id \o JsonSuffix]) ELSE {}]

\* FilesystemStorage.Exists
Exists(fs, id) == id \in DOMAIN fs

\* FilesystemStorage.Existing
Existing(fs) == {name \in DOMAIN fs : ~HasSuffix(name, JsonSuffix)}

(***************************************************************************)
(* blob-server handlers (cmd_api_server.go, second half)                   *)
(* A response is [status, body, hdr, fs, fsCalls, ok, meta]: fs is the     *)
(* directory the handler leaves behind, fsCalls the FilesystemStorage      *)
(* calls it made, ok whether a Store succeeded, meta what Get returned.    *)
(***************************************************************************)
Itoa(n) ==
    CASE n = 0 -> "0" [] n = 1 -> "1" [] n = 2 -> "2" [] n = 3 -> "3"
      [] OTHER -> "4"

\* fmt.Sprintf("{\"id\":\"%s\",\"status\":\"OK\",\"size\":%d}", id, len(content))
AckBody(id, content) ==
    <<"{\"id\":\"">> \o id \o <<"\",\"status\":\"OK\",\"size\":", Itoa(Len(content)), "}">>

\* The headers GetHandler sets from the metadata map.
MetaHeaders(meta) ==
    UNION { IF kv[1] = "X-Mime-Type"
            THEN {kv, <<"Content-Type", kv[2]>>}
            ELSE {kv} : kv \in meta }

\* Faulty variant of GetHandler: a GET of an id the directory does not
\* hold leaves an empty file of that name behind.
GetHandler_CreatesOnMiss(fs, id, method) ==
    IF ~ValidId(id)
    THEN HttpError("alphanumeric IDs only", 500, fs, <<>>)
    ELSE IF method = "HEAD"
    THEN [status |-> IF Exists(fs, id) THEN 200 ELSE 404, body |-> <<>>,
          hdr |-> {<<"Connection", "close">>}, fs |-> fs,
          fsCalls |-> <<"Exists">>, ok |-> FALSE, meta |-> {}]
    ELSE LET g == Get(fs, id)
         IN  IF ~g.found
             THEN HttpError("404 page not found", 404, PutFile(fs, id, <<>>), <<"Get">>)
             ELSE [status |-> 200, body |-> g.data, hdr |-> MetaHeaders(g.meta),
                   fs |-> fs, fsCalls |-> <<"Get">>, ok |-> FALSE, meta |-> g.meta]

\* GetHandler, for GET and HEAD /blob/{id}
GetHandler(fs, id, method) ==
    IF ~ValidId(id)
    THEN HttpError("alphanumeric IDs only", 500, fs, <<>>)
    ELSE IF method = "HEAD"
    THEN [status |-> IF Exists(fs, id) THEN 200 ELSE 404, body |-> <<>>,
          hdr |-> {<<"Connection", "close">>}, fs |-> fs,
          fsCalls |-> <<"Exists">>, ok |-> FALSE, meta |-> {}]
    ELSE LET g == Get(fs, id)
         IN  IF ~g.found
             THEN HttpError("404 page not found", 404, fs, <<"Get">>)
             ELSE [status |-> 200, body |-> g.data, hdr |-> MetaHeaders(g.meta),
                   fs |-> fs, fsCalls |-> <<"Get">>, ok |-> FALSE, meta |-> g.meta]

\* MissingHandler
MissingHandler(fs) ==
    [status |-> 404, body |-> <<"404 - content is not hosted here.">>, hdr |-> {},
     fs |-> fs, fsCalls |-> <<>>, ok |-> FALSE, meta |-> {}]

\* Faulty variant of UploadHandler: the id is not validated.
UploadHandler_NoIdCheck(fs, id, content, reqMeta) ==
    { IF s.ok
      THEN [status |-> 200, body |-> FprintfNoArgs(AckBody(id, content)),
            hdr |-> {}, fs |-> s.fs, fsCalls |-> <<"Store">>,
            ok |-> TRUE, meta |-> {}]
      ELSE HttpError("failed to write to storage", 500, s.fs, <<"Store">>)
      : s \in Store(fs, id, content) }

\* UploadHandler, for POST /blob/{id}: every response it can give.  The
\* request's headers (reqMeta) are not read anywhere in the handler.
UploadHandler(fs, id, content, reqMeta) ==
    IF ~ValidId(id)
    THEN {HttpError("alphanumeric IDs only", 500, fs, <<>>)}
    ELSE {HttpError("failed to read body", 500, fs, <<>>)}
         \cup { IF s.ok
                THEN [status |-> 200, body |-> FprintfNoArgs(AckBody(id, content)),
                      hdr |-> {}, fs |-> s.fs, fsCalls |-> <<"Store">>,
                      ok |-> TRUE, meta |-> {}]
                ELSE HttpError("failed to write to storage", 500, s.fs, <<"Store">>)
                : s \in Store(fs, id, content) }

\* ListHandler
ListHandler(fs) ==
    [status |-> 200, body |-> <<>>, hdr |-> {}, fs |-> fs,
     fsCalls |-> <<"Existing">>, ok |-> FALSE, meta |-> {}]

\* HealthHandler
HealthHandler(fs) ==
    [status |-> 200, body |-> FprintfNoArgs(<<"alive">>), hdr |-> {}, fs |-> fs,
     fsCalls |-> <<>>, ok |-> FALSE, meta |-> {}]

\* blobServer's router: "/blob/{id}" needs a non-empty id, everything else
\* falls to MissingHandler.
RouteGet(fs, id, method) ==
    IF id = <<>> THEN MissingHandler(fs) ELSE GetHandler(fs, id, method)

RoutePost(fs, id, content, reqMeta) ==
    IF id = <<>> THEN {MissingHandler(fs)} ELSE UploadHandler(fs, id, content, reqMeta)

(***************************************************************************)
(* State shared by the two specifications                                  *)
(***************************************************************************)
NoStores == [x \in {} |-> [data |-> <<>>, meta |-> {}]]

Idle ==
    [kind |-> "none", pc |-> "idle", method |-> "", rawid |-> <<>>, key |-> <<>>,
     buf |-> <<>>, path |-> <<>>, idx |-> 0, log |-> <<>>, status |-> 0,
     body |-> <<>>, hdr |-> {}]

NoReq ==
    [op |-> "none", node |-> "", id |-> <<>>, data |-> <<>>, reqMeta |-> {},
     status |-> 0, body |-> <<>>, hdr |-> {}, fsCalls |-> <<>>, meta |-> {},
     list |-> {}]

\* The UploadHandler goroutines a blob-server runs side by side in ConcSpec
\* (net/http serves every request in a goroutine of its own).
Clients == {1, 2}

NoStore == [pc |-> "idle", id |-> <<>>, data |-> <<>>]

NoConc == [c \in Clients |-> NoStore]

\* A data directory is empty after Setup's MkdirAll, or holds a metadata
\* sidecar an operator placed there (the handlers never write one).
SidecarFs == PutFile(EmptyFs, Sha1Hex(<<"a">>) \o JsonSuffix, <<"X-Mime-Type", "t">>)

\* n1 starts with the sidecar, the other directories start empty.
InitialFiles == [n \in Nodes |-> IF n = "n1" THEN SidecarFs ELSE EmptyFs]

\* What a succeeded store adds to the history.
RecordStore(st, n, id, data, reqMeta) ==
    [st EXCEPT ![n] = [x \in DOMAIN st[n] \cup {id} |->
                          IF x = id THEN [data |-> data, meta |-> reqMeta]
                          ELSE st[n][x]]]

(***************************************************************************)
(* NodeSpec: a client talking to the blob-servers directly                 *)
(***************************************************************************)
NodeIds == { <<"a">>, Sha1Hex(<<"a">>), <<"A">>, <<"a", ".", "b">> }

\* The blob-server the direct client talks to (STORAGE is one per process).
DirectNodes == {"n1"}

NodeInit ==
    /\ registry = <<>>
    /\ net = [n \in Nodes |-> "up"]
    /\ files = InitialFiles
    /\ stored = [n \in Nodes |-> NoStores]
    /\ api = Idle
    /\ nodeReq = NoReq
    /\ writes = 0
    /\ acked = {}
    /\ conc = NoConc

\* POST /blob/{id}
NodePost ==
    \E n \in DirectNodes, id \in NodeIds, data \in Payloads, m \in RequestMetas :
      /\ writes < MaxStores
      /\ \E r \in RoutePost(files[n], id, data, m) :
           /\ files' = [files EXCEPT ![n] = r.fs]
           /\ stored' = IF r.ok THEN RecordStore(stored, n, id, data, m) ELSE stored
           /\ nodeReq' = [NoReq EXCEPT !.op = "POST", !.node = n, !.id = id,
                             !.data = data, !.reqMeta = m, !.status = r.status,
                             !.body = r.body, !.hdr = r.hdr, !.fsCalls = r.fsCalls]
      /\ writes' = writes + 1
      /\ UNCHANGED <<registry, net, api, acked, conc>>

\* GET or HEAD /blob/{id}
NodeGet ==
    \E n \in DirectNodes, id \in NodeIds, method \in {"GET", "HEAD"} :
      LET r == RouteGet(files[n], id, method)
      IN  /\ nodeReq' = [NoReq EXCEPT !.op = method, !.node = n, !.id = id,
                            !.status = r.status, !.body = r.body, !.hdr = r.hdr,
                            !.fsCalls = r.fsCalls, !.meta = r.meta]
          /\ files' = [files EXCEPT ![n] = r.fs]
          /\ UNCHANGED <<registry, net, stored, api, writes, acked, conc>>

\* GET /blobs
NodeList ==
    \E n \in DirectNodes :
      LET r == ListHandler(files[n])
      IN  /\ nodeReq' = [NoReq EXCEPT !.op = "LIST", !.node = n, !.status = r.status,
                            !.fsCalls = r.fsCalls, !.list = Existing(files[n])]
          /\ UNCHANGED <<registry, net, files, stored, api, writes, acked, conc>>

\* GET /alive
NodeAlive ==
    \E n \in DirectNodes :
      LET r == HealthHandler(files[n])
      IN  /\ nodeReq' = [NoReq EXCEPT !.op = "ALIVE", !.node = n, !.status = r.status,
                            !.body = r.body]
          /\ UNCHANGED <<registry, net, files, stored, api, writes, acked, conc>>

NodeNext == NodePost \/ NodeGet \/ NodeList \/ NodeAlive

NodeSpec == NodeInit /\ [][NodeNext]_vars

(***************************************************************************)
(* ConcSpec: two UploadHandler goroutines of one blob-server, side by      *)
(* side.  STORAGE.Store takes no lock; ioutil.WriteFile is three system    *)
(* calls (open with O_TRUNC, write at the descriptor's own offset, close)  *)
(* and the goroutines interleave between them.  I/O errors are left out.   *)
(***************************************************************************)
ConcIds == { <<"k">>, <<"m">> }

ConcPayloads == { <<"a", "b">>, <<"c">> }

\* The blob-server the goroutines belong to.
ConcNode == "n1"

\* write(2) of data at offset 0 of a file holding old: data replaces the
\* first Len(data) bytes, whatever lies behind them stays.
WriteAt0(old, data) == data \o SubSeq(old, Len(data) + 1, Len(old))

\* UploadHandler up to the call of STORAGE.Store: the id matched the
\* pattern and the body has been read.
ConcUploadBegin(c) ==
    /\ conc[c].pc = "idle"
    /\ \E id \in ConcIds, data \in ConcPayloads :
         /\ ValidId(id)
         /\ conc' = [conc EXCEPT ![c] = [pc |-> "open", id |-> id, data |-> data]]
    /\ UNCHANGED <<registry, net, files, stored, api, nodeReq, writes, acked>>

\* ioutil.WriteFile: os.OpenFile(target, O_WRONLY|O_CREATE|O_TRUNC, 0644)
ConcOpenFile(c) ==
    /\ conc[c].pc = "open"
    /\ files' = [files EXCEPT ![ConcNode] = PutFile(files[ConcNode], conc[c].id, <<>>)]
    /\ conc' = [conc EXCEPT ![c].pc = "write"]
    /\ UNCHANGED <<registry, net, stored, api, nodeReq, writes, acked>>

\* ioutil.WriteFile: f.Write(data)
ConcWrite(c) ==
    /\ conc[c].pc = "write"
    /\ files' = [files EXCEPT ![ConcNode] =
                    PutFile(files[ConcNode], conc[c].id,
                            WriteAt0(files[ConcNode][conc[c].id], conc[c].data))]
    /\ conc' = [conc EXCEPT ![c].pc = "close"]
    /\ UNCHANGED <<registry, net, stored, api, nodeReq, writes, acked>>

\* ioutil.WriteFile: f.Close(); Store returns true and UploadHandler
\* writes its acknowledgment: this store has completed.
ConcComplete(c) ==
    /\ conc[c].pc = "close"
    /\ stored' = RecordStore(stored, ConcNode, conc[c].id, conc[c].data, {})
    /\ conc' = [conc EXCEPT ![c].pc = "done"]
    /\ UNCHANGED <<registry, net, files, api, nodeReq, writes, acked>>

ConcNext ==
    \E c \in Clients :
      ConcUploadBegin(c) \/ ConcOpenFile(c) \/ ConcWrite(c) \/ ConcComplete(c)

ConcSpec == NodeInit /\ [][ConcNext]_vars

(***************************************************************************)
(* libconfig (github.com/skx/sos/libconfig), as the handlers see it        *)
(***************************************************************************)
Server(g, n) == [Group |-> g, Location |-> n]

\* The registries apiServer can come up with: no blob-server at all, or
\* a configuration with the two groups A = {n1} and B = {n2, n3}.
Registries ==
    { <<>>,
      <<Server("A", "n1"), Server("B", "n2"), Server("B", "n3")>> }

RECURSIVE Groups(_)
\* The group names, each once, in registration order.
Groups(reg) ==
    IF reg = <<>> THEN <<>>
    ELSE LET rest == Groups(SubSeq(reg, 1, Len(reg) - 1))
             g == reg[Len(reg)].Group
         IN  IF \E i \in 1..Len(rest) : rest[i] = g THEN rest ELSE Append(rest, g)

InGroup(reg, g) == SelectSeq(reg, LAMBDA s : s.Group = g)

NotInGroup(reg, g) == SelectSeq(reg, LAMBDA s : s.Group # g)

\* The search path that starts with group g: its endpoints in registration
\* order, then the endpoints of every other group.
SearchPath(reg, g) == InGroup(reg, g) \o NotInGroup(reg, g)

\* libconfig.OrderedServers(): the handlers call it without any argument,
\* so the group it puts first is not a function of the request; every path
\* it can return for the registry.
OrderedServers(reg) ==
    IF reg = <<>> THEN {<<>>}
    ELSE {SearchPath(reg, Groups(reg)[h]) : h \in 1..Len(Groups(reg))}

RegistryNodes == {registry[i].Location : i \in 1..Len(registry)}

(***************************************************************************)
(* The network between the API-server and a blob-server                    *)
(***************************************************************************)
Undelivered(fs) ==
    [status |-> 0, body |-> <<>>, hdr |-> {}, fs |-> fs, fsCalls |-> <<>>,
     ok |-> FALSE, meta |-> {}]

\* client.Do / http.Get against a blob-server whose handler can answer
\* with any of `responses`: "down" fails before the request is delivered,
\* "lossy" delivers it and loses the answer, "up" returns the answer.
Transport(mode, fs, responses) ==
    IF mode = "down"
    THEN {[err |-> TRUE, resp |-> Undelivered(fs)]}
    ELSE {[err |-> (mode = "lossy"), resp |-> r] : r \in responses}

LogEntry(s, t) ==
    [node |-> s.Location, err |-> t.err, status |-> t.resp.status,
     wrote |-> t.resp.ok, body |-> t.resp.body]

(***************************************************************************)
(* API-server handlers (cmd_api_server.go, first half)                     *)
(* A handler runs as one action; its loop over the search path is the      *)
(* recursive operator below, one level per blob-server tried.              *)
(***************************************************************************)
\* The ids asked of /fetch/{id}: the two fingerprints, one with a single
\* extension, one with two (what is left after stripping is no valid id
\* for a blob-server), and a bare extension.
DownloadIds ==
    { Sha1Hex(<<"a">>), Sha1Hex(<<"a", "b">>), Sha1Hex(<<"a">>) \o <<".", "p">>,
      Sha1Hex(<<"a">>) \o <<".", "p", ".", "q">>, <<".", "p">> }

Init ==
    /\ registry \in Registries
    /\ net = [n \in Nodes |-> "up"]
    /\ files = InitialFiles
    /\ stored = [n \in Nodes |-> NoStores]
    /\ api = Idle
    /\ nodeReq = NoReq
    /\ writes = 0
    /\ acked = {}
    /\ conc = NoConc

\* Faulty variants of the two exit tests below: the claims are tested
\* against them.
UploadAccepts_IgnoresErr(t) == TRUE

UploadAccepts_NeverReturns(t) == FALSE

DownloadAccepts_IgnoresStatus(t) == ~t.err

DownloadAccepts_ErrAsFound(t) == t.err \/ t.resp.status = 200

DownloadAccepts_NeverReturns(t) == FALSE

\* The loop body's exit test in APIUploadHandler: a transport error moves
\* on; otherwise ioutil.ReadAll's result, never nil, is relayed.
UploadAccepts(t) == ~t.err

\* The loop body's exit test in APIDownloadHandler.
DownloadAccepts(t) == ~t.err /\ t.resp.status = 200

RECURSIVE UploadLoop(_, _, _, _, _, _, _)
\* APIUploadHandler's loop from position i on: every way it can end, as
\* [files, stored, log, accepted, body, hung].  client.Do has no timeout
\* (&http.Client{}): against a blob-server that accepts the connection and
\* never answers, the call does not return and the loop stays where it is.
UploadLoop(path, i, fl, st, log, key, buf) ==
    IF i > Len(path)
    THEN {[files |-> fl, stored |-> st, log |-> log, accepted |-> FALSE,
           body |-> <<>>, hung |-> FALSE]}
    ELSE LET s == path[i]
             n == s.Location
         IN  IF net[n] = "hung"
             THEN {[files |-> fl, stored |-> st, log |-> log, accepted |-> FALSE,
                    body |-> <<>>, hung |-> TRUE]}
             ELSE
             UNION { LET fl2 == [fl EXCEPT ![n] = t.resp.fs]
                         st2 == IF t.resp.ok THEN RecordStore(st, n, key, buf, {}) ELSE st
                         log2 == Append(log, LogEntry(s, t))
                     IN  IF UploadAccepts(t)
                         THEN {[files |-> fl2, stored |-> st2, log |-> log2,
                                accepted |-> TRUE, body |-> t.resp.body,
                                hung |-> FALSE]}
                         ELSE UploadLoop(path, i + 1, fl2, st2, log2, key, buf)
                     : t \in Transport(net[n], fl[n], RoutePost(fl[n], key, buf, {})) }

\* APIUploadHandler: read the body, hash it, walk OrderedServers().
APIUpload ==
    /\ api.pc = "idle"
    /\ writes < MaxUploads
    /\ \E buf \in Payloads, path \in OrderedServers(registry) :
         \E run \in UploadLoop(path, 1, files, stored, <<>>, Sha1Hex(buf), buf) :
           /\ files' = run.files
           /\ stored' = run.stored
           /\ api' = [Idle EXCEPT !.kind = "upload", !.method = "POST",
                         !.pc = IF run.hung THEN "waiting" ELSE "done",
                         !.buf = buf, !.key = Sha1Hex(buf), !.path = path,
                         !.log = run.log,
                         !.status = IF run.hung THEN 0
                                    ELSE IF run.accepted THEN 200 ELSE 500,
                         !.body = IF run.hung THEN <<>>
                                  ELSE IF run.accepted THEN FprintfNoArgs(run.body)
                                  ELSE FprintfNoArgs(<<"{\"error\":\"upload failed\"}">>)]
    /\ writes' = writes + 1
    /\ UNCHANGED <<registry, net, nodeReq, conc>>

\* The handler, with no history of its answers kept.
APIUploadHandler == APIUpload /\ UNCHANGED acked

\* http.DetectContentType on the payloads of this model, all short ASCII
\* text.
DetectContentType(body) == "text/plain; charset=utf-8"

\* The headers net/http adds when a handler writes a body and has set
\* none: the first Write sniffs a Content-Type; no Write, no Content-Type.
ImplicitHeaders(body) ==
    IF body = <<>> THEN {} ELSE {<<"Content-Type", DetectContentType(body)>>}

RECURSIVE DownloadLoop(_, _, _, _, _)
\* APIDownloadHandler's loop from position i on (http.Get, whatever the
\* caller's method): every way it can end, as [files, log, accepted, body,
\* hung].  http.Get uses http.DefaultClient, which has no timeout either.
DownloadLoop(path, i, fl, log, key) ==
    IF i > Len(path)
    THEN {[files |-> fl, log |-> log, accepted |-> FALSE, body |-> <<>>,
           hung |-> FALSE]}
    ELSE LET s == path[i]
             n == s.Location
         IN  IF net[n] = "hung"
             THEN {[files |-> fl, log |-> log, accepted |-> FALSE, body |-> <<>>,
                    hung |-> TRUE]}
             ELSE
             UNION { LET fl2 == [fl EXCEPT ![n] = t.resp.fs]
                         log2 == Append(log, LogEntry(s, t))
                     IN  IF DownloadAccepts(t)
                         THEN {[files |-> fl2, log |-> log2, accepted |-> TRUE,
                                body |-> t.resp.body, hung |-> FALSE]}
                         ELSE DownloadLoop(path, i + 1, fl2, log2, key)
                     : t \in Transport(net[n], fl[n], {RouteGet(fl[n], key, "GET")}) }

\* What APIDownloadHandler writes to the caller once its loop has ended.
DownloadAnswer(run, method) ==
    [status |-> IF run.hung THEN 0 ELSE IF run.accepted THEN 200 ELSE 404,
     hdr |-> IF run.hung THEN {}
             ELSE IF run.accepted /\ method = "GET" THEN ImplicitHeaders(run.body)
             ELSE {<<"Connection", "close">>},
     body |-> IF run.accepted /\ method = "GET" THEN run.body ELSE <<>>]

\* APIDownloadHandler: strip the extension, walk OrderedServers().
APIDownloadHandler ==
    /\ api.pc = "idle"
    /\ \E id \in DownloadIds, method \in {"GET", "HEAD"},
          path \in OrderedServers(registry) :
         \E run \in DownloadLoop(path, 1, files, <<>>, StripExt(id)) :
           /\ files' = run.files
           /\ api' = [Idle EXCEPT !.kind = "download",
                         !.pc = IF run.hung THEN "waiting" ELSE "done",
                         !.method = method, !.rawid = id, !.key = StripExt(id),
                         !.path = path, !.log = run.log,
                         !.status = DownloadAnswer(run, method).status,
                         !.hdr = DownloadAnswer(run, method).hdr,
                         !.body = DownloadAnswer(run, method).body]
    /\ UNCHANGED <<registry, net, stored, nodeReq, writes, acked, conc>>

\* replicateCmd.Execute: the call to replicate is commented out, the
\* command returns ExitSuccess without contacting any blob-server.
ReplicateExecute ==
    /\ api.pc = "idle"
    /\ api' = [Idle EXCEPT !.kind = "replicate", !.pc = "done"]
    /\ UNCHANGED <<registry, net, files, stored, nodeReq, writes, acked, conc>>

\* The caller has read the answer; the next request can be issued.
Respond ==
    /\ api.pc = "done"
    /\ api' = Idle
    /\ UNCHANGED <<registry, net, files, stored, nodeReq, writes, acked, conc>>

\* The environment: a blob-server goes down, comes back, or starts losing
\* answers, between two requests.
SetNet ==
    /\ api.pc = "idle"
    /\ \E n \in Nodes, m \in NetModes :
         /\ net[n] # m
         /\ net' = [net EXCEPT ![n] = m]
    /\ UNCHANGED <<registry, files, stored, api, nodeReq, writes, acked, conc>>

Next ==
    \/ APIUploadHandler \/ APIDownloadHandler \/ ReplicateExecute
    \/ Respond \/ SetNet

Spec == Init /\ [][Next]_vars

(***************************************************************************)
(* TimeoutSpec: the API tier in front of blob-servers that can go          *)
(* unresponsive: such a server accepts connections and never answers, and  *)
(* stays that way.  A caller that got its answer reads it (WF on Respond). *)
(***************************************************************************)
TimeoutInit ==
    /\ Init
    /\ registry # <<>>

\* A blob-server stops answering.
Hang ==
    /\ api.pc = "idle"
    /\ \E n \in Nodes :
         /\ net[n] = "up"
         /\ net' = [net EXCEPT ![n] = "hung"]
    /\ UNCHANGED <<registry, files, stored, api, nodeReq, writes, acked, conc>>

TimeoutNext == APIUploadHandler \/ APIDownloadHandler \/ Respond \/ Hang

TimeoutSpec == TimeoutInit /\ [][TimeoutNext]_vars /\ WF_vars(Respond)

(***************************************************************************)
(* RoundTripSpec: the API tier with a record of the uploads it answered    *)
(* with a blob-server's OK acknowledgment, in front of a fleet in which    *)
(* the network of one blob-server is unreliable.                           *)
(***************************************************************************)
\* The blob-servers whose network changes.
FlakyNodes == {"n1"}

\* The upload the handler has just acknowledged to its caller, if any: the
\* answer it relayed is a blob-server's 200 for a store that succeeded.
Acknowledged(a) ==
    IF /\ a.kind = "upload" /\ a.pc = "done" /\ a.log # <<>>
       /\ ~a.log[Len(a.log)].err
       /\ a.log[Len(a.log)].status = 200
       /\ a.log[Len(a.log)].wrote
    THEN {[node |-> a.log[Len(a.log)].node, id |-> a.key, data |-> a.buf]}
    ELSE {}

\* APIUploadHandler, with the acknowledged uploads recorded.
APIUploadHandlerAcked == APIUpload /\ acked' = acked \cup Acknowledged(api')

\* SetNet for the unreliable blob-servers only.
SetNetFlaky ==
    /\ api.pc = "idle"
    /\ \E n \in FlakyNodes, m \in NetModes :
         /\ net[n] # m
         /\ net' = [net EXCEPT ![n] = m]
    /\ UNCHANGED <<registry, files, stored, api, nodeReq, writes, acked, conc>>

RoundTripNext ==
    APIUploadHandlerAcked \/ APIDownloadHandler \/ Respond \/ SetNetFlaky

RoundTripSpec == TimeoutInit /\ [][RoundTripNext]_vars

(***************************************************************************)
(* The routing key's home group, as the design describes it: a numeric     *)
(* reduction of the key modulo the number of groups.                       *)
(***************************************************************************)
HexValue(c) ==
    CASE c = "0" -> 0 [] c = "1" -> 1 [] c = "2" -> 2 [] c = "3" -> 3
      [] c = "4" -> 4 [] c = "5" -> 5 [] c = "6" -> 6 [] c = "7" -> 7
      [] c = "8" -> 8 [] c = "9" -> 9 [] c = "a" -> 10 [] c = "b" -> 11
      [] c = "c" -> 12 [] c = "d" -> 13 [] c = "e" -> 14 [] c = "f" -> 15
      [] OTHER -> 0

RECURSIVE KeyNumber(_)
KeyNumber(key) ==
    IF key = <<>> THEN 0 ELSE HexValue(Head(key)) + KeyNumber(Tail(key))

HomeGroup(reg, key) == Groups(reg)[(KeyNumber(key) % Len(Groups(reg))) + 1]

(***************************************************************************)
(* Vocabulary of the claims                                                *)
(***************************************************************************)
UploadDone == api.kind = "upload" /\ api.pc = "done"

DownloadDone == api.kind = "download" /\ api.pc = "done"

PathNodes == {api.path[i].Location : i \in 1..Len(api.path)}

Tried == 1..Len(api.log)

\* A candidate's attempt failed: transport error or non-success status.
Failed(e) == e.err \/ e.status # 200

Reachable == {n \in PathNodes : net[n] = "up"}

GenericUploadError == <<"{\"error\":\"upload failed\"}">>

\* The outcomes (status and body) GET or HEAD /fetch/{id} can have over the
\* search path `path` against the fleet as it is.
FetchOutcomes(path, id, method) ==
    { [status |-> DownloadAnswer(run, method).status,
       body |-> DownloadAnswer(run, method).body] :
        run \in DownloadLoop(path, 1, files, <<>>, StripExt(id)) }

\* Position of the last dot of an identifier, 0 without one.
LastDot(id) ==
    LET dots == {i \in 1..Len(id) : id[i] = "."}
    IN  IF dots = {} THEN 0 ELSE CHOOSE i \in dots : \A j \in dots : j <= i

\* The identifier is a name followed by a trailing extension.
CarriesExtension(id) == LastDot(id) > 1

\* The identifier without its trailing extension.
Stem(id) == SubSeq(id, 1, LastDot(id) - 1)

\* Reachable candidates that hold the blob `id`.
Holders(id) == {n \in Reachable : id \in Existing(files[n])}

(***************************************************************************)
(* Claims                                                                  *)
(***************************************************************************)

\* C1: an upload moves on to the next candidate after every candidate that
\* failed (transport error or non-success status), and what it relays to
\* the caller comes from a candidate that returned a successful write
\* acknowledgment.  Stated as the claim reads; the handler does not look at
\* the status of the answer.
C1_RetriesUntilAck ==
    UploadDone =>
      /\ \A i \in Tried :
           Failed(api.log[i]) => (i < Len(api.log) \/ i = Len(api.path))
      /\ api.body # GenericUploadError =>
           (api.log # <<>> /\ ~Failed(api.log[Len(api.log)]))

\* C2: with exactly one reachable endpoint, at any position of the search
\* path, the upload gets to that endpoint, the caller's body is the body
\* the endpoint returned, and when the endpoint acknowledged the write the
\* payload is in its directory under the payload's fingerprint.
C2_OneReachableEndpoint ==
    (UploadDone /\ Cardinality(Reachable) = 1) =>
      \A n \in Reachable :
        /\ \E i \in Tried : api.log[i].node = n
        /\ \A i \in Tried :
             api.log[i].node = n =>
               /\ api.body = api.log[i].body
               /\ api.log[i].status = 200 =>
                    /\ api.status = 200
                    /\ api.key = Sha1Hex(api.buf)
                    /\ Exists(files[n], api.key)
                    /\ files[n][api.key] = api.buf

C2_Witness ==
    /\ UploadDone
    /\ Reachable = {"n3"}
    /\ Len(api.log) = 3
    /\ api.log[3].node = "n3"
    /\ api.log[3].status = 200
    /\ api.status = 200

\* C3: when every candidate of the search path fails (or there is none),
\* the upload ends with a 5xx status and the generic error body.  Stated as
\* the claim reads; it fails through the defect of C1.
C3_ExhaustedUploadIsGeneric5xx ==
    (/\ UploadDone
     /\ \A n \in PathNodes :
          \/ \E i \in Tried : api.log[i].node = n /\ Failed(api.log[i])
          \/ (\A i \in Tried : api.log[i].node # n) /\ net[n] # "up")
    => (api.status >= 500 /\ api.body = GenericUploadError)

\* C4 as the claim reads: at most one blob-server performs a successful
\* write for one upload, also when a committed write's answer is lost.
C4_AtMostOneWrite ==
    UploadDone => Cardinality({i \in Tried : api.log[i].wrote}) <= 1

\* C4, amended: at most one successful write is acknowledged to the
\* handler, it is the last candidate the handler contacts, and every other
\* blob-server that performed the write is one whose answer was lost.
C4_AtMostOneAcknowledgedWrite ==
    UploadDone =>
      /\ Cardinality({i \in Tried : api.log[i].wrote /\ ~api.log[i].err}) <= 1
      /\ \A i \in Tried :
           api.log[i].wrote =>
             /\ Exists(files[api.log[i].node], api.key)
             /\ (i < Len(api.log) => api.log[i].err)

C4_Witness ==
    /\ UploadDone
    /\ Len(api.log) = 2
    /\ api.log[1].wrote /\ api.log[1].err
    /\ api.log[2].wrote /\ ~api.log[2].err

\* C5: a download (GET or HEAD) of an id some reachable candidate holds
\* ends with status 200; a GET delivers the bytes held by the candidate
\* that served it, a reachable holder of the id.
C5_DownloadFindsStoredBlob ==
    (DownloadDone /\ Holders(api.rawid) # {}) =>
      /\ api.status = 200
      /\ api.log # <<>>
      /\ api.log[Len(api.log)].node \in Holders(api.rawid)
      /\ api.method = "GET" =>
           api.body = files[api.log[Len(api.log)].node][api.rawid]
      /\ api.method = "HEAD" => api.body = <<>>

C5_Witness ==
    /\ DownloadDone
    /\ api.method = "GET"
    /\ Len(api.log) = 3
    /\ api.log[1].err
    /\ api.log[2].status = 404
    /\ Holders(api.rawid) = {api.log[3].node}
    /\ api.status = 200
    /\ api.body = Get(files[api.log[3].node], api.rawid).data
    /\ api.body # <<>>

\* C6: a download no reachable candidate can serve ends with 404 and no
\* body, whatever errors and statuses the candidates produced.
C6_UnservedDownloadIs404 ==
    (DownloadDone /\ Holders(api.key) = {}) =>
      (api.status = 404 /\ api.body = <<>>)

C6_Witness ==
    /\ DownloadDone
    /\ Len(api.log) = 3
    /\ \E i \in Tried : api.log[i].err /\ api.key \in Existing(files[api.log[i].node])
    /\ \E i \in Tried : api.log[i].status = 404
    /\ api.status = 404

\* C7: with more than one group the search path of an upload or download
\* is the one that starts with the home group of its routing key.  Stated
\* as the claim reads; the handlers never hand the key to OrderedServers.
C7_HomeGroupOfKeyFirst ==
    (/\ api.pc = "done"
     /\ api.kind \in {"upload", "download"}
     /\ Len(Groups(registry)) > 1)
    => api.path = SearchPath(registry, HomeGroup(registry, api.key))

\* C8: after a run of the replicate command every blob held by some node
\* of the fleet is held by an endpoint of its home group.  Stated as the
\* claim reads; the command does nothing.
C8_ReplicateFillsHomeGroup ==
    (api.kind = "replicate" /\ api.pc = "done") =>
      \A n \in RegistryNodes : \A id \in Existing(files[n]) :
        \E i \in 1..Len(registry) :
          /\ registry[i].Group = HomeGroup(registry, id)
          /\ id \in Existing(files[registry[i].Location])

\* C9: a GET of a valid id returns the bytes of the most recent store of
\* that id that succeeded, and the metadata sent with that store.  Stated
\* as the claim reads; the blob-server drops the metadata of a store.
C9_StoreGetRoundTrip ==
    (/\ nodeReq.op = "GET"
     /\ ValidId(nodeReq.id)
     /\ nodeReq.id \in DOMAIN stored[nodeReq.node])
    => /\ nodeReq.status = 200
       /\ nodeReq.body = stored[nodeReq.node][nodeReq.id].data
       /\ nodeReq.meta = stored[nodeReq.node][nodeReq.id].meta

\* C10: a get, exists (HEAD) or store of an id outside [a-z0-9]+ is
\* answered with an error, makes no FilesystemStorage call, and leaves the
\* directory and the store history as they were.
C10_InvalidIdRejected ==
    [][ (nodeReq'.op \in {"GET", "HEAD", "POST"} /\ ~ValidId(nodeReq'.id)) =>
          /\ nodeReq'.status = 500
          /\ nodeReq'.fsCalls = <<>>
          /\ files' = files
          /\ stored' = stored ]_vars

C10_Witness ==
    /\ nodeReq.op = "POST"
    /\ ~ValidId(nodeReq.id)
    /\ nodeReq.status = 500
    /\ Existing(files[nodeReq.node]) # {}

\* C11: when two stores of the same id have run side by side on a
\* blob-server and both have completed, the file of that id holds the whole
\* payload of one of them, not bytes of both.  Stated as the claim reads
\* (without its "last one to complete" part, which asks for more); Store
\* takes no lock around open, write and close.
C11_ConcurrentStoresNoMix ==
    \A id \in ConcIds :
      LET same == {c \in Clients : conc[c].pc = "done" /\ conc[c].id = id}
      IN  (same = Clients) =>
            /\ Exists(files[ConcNode], id)
            /\ files[ConcNode][id] \in {conc[c].data : c \in same}

\* C12: every upload or download the API-server has taken up gets its
\* response, also when a candidate accepts the connection and never
\* answers.  Stated as the claim reads; no outbound request has a timeout.
C12_EveryRequestAnswered ==
    (api.pc = "waiting") ~> (api.pc = "done")

\* C13: a GET or HEAD through the API-server changes no blob-server's
\* directory (content and inventory of every node stay what they were), and
\* the same request over the same search path against the fleet it leaves
\* behind ends the same way.
C13_DownloadLeavesNodesAlone ==
    [][ (api.pc = "idle" /\ api'.kind = "download") =>
          /\ files' = files
          /\ stored' = stored
          /\ \A n \in Nodes : Existing(files'[n]) = Existing(files[n])
          /\ \A run \in DownloadLoop(api'.path, 1, files', <<>>, api'.key) :
               /\ run.log = api'.log
               /\ run.accepted = (api'.status = 200)
               /\ api'.method = "GET" => run.body = api'.body ]_vars

C13_Witness ==
    /\ DownloadDone
    /\ api.method = "HEAD"
    /\ api.status = 200
    /\ Len(api.log) = 2
    /\ api.log[1].status = 404
    /\ ~api.log[1].err

\* C14: a store that fails on an I/O error is answered with a server error
\* and leaves under its id either the whole new payload or what the
\* directory held for the id before (nothing, if it held nothing).  Stated
\* as the claim reads; WriteFile truncates the file before it writes.
C14_FailedStoreAllOrNothing ==
    [][ (/\ nodeReq'.op = "POST"
         /\ nodeReq'.fsCalls = <<"Store">>
         /\ nodeReq'.status # 200) =>
          LET before == files[nodeReq'.node]
              after == files'[nodeReq'.node]
              id == nodeReq'.id
          IN  /\ nodeReq'.status = 500
              /\ \/ after = before
                 \/ (Exists(after, id) /\ after[id] = nodeReq'.data) ]_vars

\* C15: GET /blobs on a blob-server lists exactly the ids a store has
\* succeeded for on that server, and no metadata sidecar.  Stated as the
\* claim reads; it fails through the defect of C14 (a failed store leaves
\* a file behind, which is listed).
C15_ListIsStoredIds ==
    (nodeReq.op = "LIST") =>
      /\ nodeReq.status = 200
      /\ nodeReq.list = DOMAIN stored[nodeReq.node]
      /\ \A name \in nodeReq.list : ~HasSuffix(name, JsonSuffix)

\* C16: a GET through the API-server that ends with 200 delivers the bytes
\* and the headers the serving blob-server produced; a blob whose metadata
\* holds X-Mime-Type reaches the caller with that value as Content-Type.
\* Taken for a blob whose store succeeded on the serving node.  Stated as
\* the claim reads; the handler copies the body only.
C16_HeadersPropagated ==
    (/\ DownloadDone /\ api.method = "GET" /\ api.status = 200
     /\ api.key \in DOMAIN stored[api.log[Len(api.log)].node]
     /\ stored[api.log[Len(api.log)].node][api.key].data
          = files[api.log[Len(api.log)].node][api.key]) =>
      LET served == GetHandler(files[api.log[Len(api.log)].node], api.key, "GET")
      IN  /\ api.body = served.body
          /\ served.hdr \subseteq api.hdr
          /\ \A kv \in served.meta :
               kv[1] = "X-Mime-Type" => <<"Content-Type", kv[2]>> \in api.hdr

\* C17: within one upload or download the candidates contacted are the
\* first ones of the search path, in its order and once each; a candidate
\* is contacted only after every candidate before it has failed, and none
\* is contacted after one that succeeded.
C17_CandidatesInOrder ==
    (api.pc = "done" /\ api.kind \in {"upload", "download"}) =>
      /\ Len(api.log) <= Len(api.path)
      /\ \A i \in Tried : api.log[i].node = api.path[i].Location
      /\ \A i \in Tried : i < Len(api.log) => Failed(api.log[i])
      /\ \A i \in Tried : ~Failed(api.log[i]) => i = Len(api.log)

C17_Witness ==
    /\ DownloadDone
    /\ api.method = "GET"
    /\ Len(api.path) = 3
    /\ Len(api.log) = 2
    /\ api.log[1].err
    /\ api.log[2].status = 200
    /\ api.log[2].node = api.path[2].Location

\* C18 as the claim reads: a download of an identifier that carries a
\* trailing extension ends, status and body, as a download of the
\* identifier without that extension does, and the blob-servers are
\* queried for the identifier without it.
C18_ExtensionIgnored ==
    (DownloadDone /\ CarriesExtension(api.rawid)) =>
      /\ api.key = Stem(api.rawid)
      /\ FetchOutcomes(api.path, Stem(api.rawid), api.method)
           = {[status |-> api.status, body |-> api.body]}

\* C18, amended: the same, for an identifier that is a dot-free name
\* followed by one extension; a download of a name that itself holds a dot
\* has its own last extension stripped.
C18_SingleExtensionIgnored ==
    (/\ DownloadDone
     /\ CarriesExtension(api.rawid)
     /\ LastDot(Stem(api.rawid)) = 0) =>
      /\ api.key = Stem(api.rawid)
      /\ FetchOutcomes(api.path, Stem(api.rawid), api.method)
           = {[status |-> api.status, body |-> api.body]}

C18_Witness ==
    /\ DownloadDone
    /\ api.method = "GET"
    /\ api.rawid = Sha1Hex(<<"a">>) \o <<".", "p">>
    /\ api.key = Sha1Hex(<<"a">>)
    /\ api.status = 200
    /\ api.body = <<"a">>

\* C19: a blob-server's inventory only grows: an id its directory holds,
\* and so every id a store has succeeded for, is still held (exists) and
\* still listed after any request to the blob-server.
C19_InventoryOnlyGrows ==
    [][ \A n \in Nodes :
          /\ \A id \in Existing(files[n]) :
               Exists(files'[n], id) /\ id \in Existing(files'[n])
          /\ \A id \in DOMAIN stored'[n] :
               Exists(files'[n], id) /\ id \in Existing(files'[n]) ]_vars

C19_Witness ==
    /\ nodeReq.op = "POST"
    /\ nodeReq.status = 500
    /\ nodeReq.fsCalls = <<"Store">>
    /\ nodeReq.id \in DOMAIN stored[nodeReq.node]
    /\ nodeReq.id \in Existing(files[nodeReq.node])

\* C20: once an upload of payload P was acknowledged with an OK answer
\* naming id h, a later GET /fetch/h issued while the acknowledging
\* blob-server is reachable returns 200 and exactly P.  Stated as the claim
\* reads; it fails through the defect of C14 (a candidate tried before the
\* acknowledging one can be left with a cut file under h).
C20_UploadFetchRoundTrip ==
    (DownloadDone /\ api.method = "GET") =>
      \A a \in acked :
        (a.id = api.rawid /\ net[a.node] = "up") =>
          (api.status = 200 /\ api.body = a.data)

====
